---------------------------- MODULE Spec2Model ----------------------------
(***************************************************************************)
(* A model of TextClassification/module/bilstm_char.py: the sinusoidal     *)
(* PositionEmbed utility and the BiLSTM classifier (frozen word embedding, *)
(* character encoder, recurrent encoder, scaled dot-product attention      *)
(* pooling with multiplicative masking, dropout, linear head).             *)
(*                                                                         *)
(* Numbers.  Tensors hold integers.  exp is modelled by the strictly       *)
(* increasing positive function x |-> 4^x, base 4 in place of e, so that   *)
(* the softmax input score / sqrt(H) has an exact power for H = 1 and      *)
(* H = 4; a softmax weight is an exact fraction <<num, den>>.              *)
(* Floating-point rounding, underflow and overflow are not modelled.       *)
(*                                                                         *)
(* Batches.  Every operation of _attention and forward acts on each row of *)
(* the batch independently (bmm, softmax over dim 1, embedding lookup,     *)
(* linear), so the value model carries one row; the batch dimension is     *)
(* carried by the shape model.                                             *)
(***************************************************************************)
EXTENDS Integers, Sequences, FiniteSets, TLC

\* ---------------------------------------------------------------- bounds
\* longest sequence (the time dimension T)
MaxT ==
    2
\* tensor entries of query and keys range over -MaxVal..MaxVal
MaxVal ==
    1
\* largest batch
MaxBatch ==
    2
\* largest value of a configured dimension (embedding width, hidden size,
\* layers, characters per token); PositionEmbed's embed_dim goes two further
MaxDim ==
    2
\* training steps applied to the parameters
MaxSteps ==
    1

\* ------------------------------------------------------------ arithmetic
Vals ==
    (0 - MaxVal)..MaxVal

RECURSIVE SumSeq(_)
SumSeq(s) ==
    IF Len(s) = 0 THEN 0 ELSE Head(s) + SumSeq(Tail(s))

RECURSIVE Pow(_, _)
Pow(b, n) ==
    IF n = 0 THEN 1 ELSE b * Pow(b, n - 1)

RECURSIVE MinSeq(_)
MinSeq(s) ==
    IF Len(s) = 1 THEN s[1]
    ELSE LET m == MinSeq(Tail(s)) IN IF Head(s) < m THEN Head(s) ELSE m

RECURSIVE Gcd(_, _)
Gcd(a, b) ==
    IF b = 0 THEN (IF a < 0 THEN 0 - a ELSE a) ELSE Gcd(b, a % b)

\* a fraction in lowest terms
Reduce(f) ==
    LET g == Gcd(f[1], f[2]) IN <<f[1] \div g, f[2] \div g>>

\* fractions <<num, den>> with den > 0
FracLe(a, b) ==
    a[1] * b[2] <= b[1] * a[2]

FracEq(a, b) ==
    a[1] * b[2] = b[1] * a[2]

FracAdd(a, b) ==
    LET g == Gcd(a[2], b[2])
    IN  <<a[1] * (b[2] \div g) + b[1] * (a[2] \div g), a[2] * (b[2] \div g)>>

RECURSIVE FracSum(_)
FracSum(s) ==
    IF Len(s) = 0 THEN <<0, 1>> ELSE FracAdd(Head(s), FracSum(Tail(s)))

\* ------------------------------------------------- BiLSTM._attention
\* the absent mask (mask=None)
NoMask ==
    <<>>

\* math.sqrt(hidden_n.size(1)), exact for the widths the model uses
Sqrt(h) ==
    CHOOSE r \in 1..h : r * r = h

\* vectors of width h used as query and key rows: one free component
Vecs(h) ==
    {[i \in 1..h |-> IF i = 1 THEN a ELSE 0] : a \in Vals}

Dot(a, b) ==
    SumSeq([i \in 1..Len(a) |-> a[i] * b[i]])

\* torch.bmm(hidden_n.unsqueeze(1), encoder_output.transpose(1, 2)).squeeze(1)
RawScores(q, keys) ==
    [t \in 1..Len(keys) |-> Dot(q, keys[t])]

\* a.mul_(b): the tensor named a is overwritten by the elementwise product
\* with the tensor named b; every other tensor is left as it is
MulInto(ts, a, b) ==
    [ts EXCEPT ![a] = [t \in 1..Len(ts[a]) |-> ts[a][t] * ts[b][t]]]

\* the step left out: the scores go to the softmax unmasked
MaskStepSkipped(ts) ==
    ts

\* the operands the other way round, mask.mul_(att_weights): the caller's
\* mask is overwritten and the scores stay unmasked
MaskStepSwapped(ts) ==
    IF ts.mask = NoMask THEN ts ELSE MulInto(ts, "mask", "att_weights")

\* if mask is not None: att_weights.mul_(mask)
MaskStep(ts) ==
    IF ts.mask = NoMask THEN ts ELSE MulInto(ts, "att_weights", "mask")

\* F.softmax(att_weights.mul(scale), dim=1) with scale = 1 / sqrt(h):
\* 4^(s/r) = 2^(2s/r) for r in {1, 2}; numerators are shifted by the
\* smallest exponent (softmax is invariant under a common shift, which is
\* what the max-subtracted formulation uses).
SoftmaxExps(scores, h) ==
    LET r == Sqrt(h)
        e == [t \in 1..Len(scores) |-> (2 * scores[t]) \div r]
        lo == MinSeq(e)
    IN  [t \in 1..Len(scores) |-> Pow(2, e[t] - lo)]

\* a softmax taken over dim 0 (the batch) instead of dim 1: each entry of a
\* row is normalised against itself
SoftmaxDim0(scores, h) ==
    LET n == SoftmaxExps(scores, h)
    IN  [t \in 1..Len(scores) |-> <<n[t], n[t]>>]

Softmax(scores, h) ==
    LET n == SoftmaxExps(scores, h)
        z == SumSeq(n)
    IN  [t \in 1..Len(scores) |-> <<n[t], z>>]

\* torch.bmm(soft_att_weights.unsqueeze(1), encoder_output).squeeze(1):
\* a vector of fractions over the common denominator of the weights
AttOut(w, keys) ==
    [i \in 1..Len(keys[1]) |->
        <<SumSeq([t \in 1..Len(keys) |-> w[t][1] * keys[t][i]]), w[1][2]>>]

\* _attention(hidden_n, encoder_output, mask): every tensor the call can
\* reach, as it is when the call returns.  att_weights is the tensor bmm
\* allocates (unsqueeze, transpose and squeeze are views and write nothing);
\* hidden_n, encoder_output and mask are the caller's.
AttentionRun(q, keys, m) ==
    LET t0 == [hidden_n |-> q, encoder_output |-> keys, mask |-> m,
               att_weights |-> RawScores(q, keys)]
        t1 == MaskStep(t0)
        w == Softmax(t1.att_weights, Len(t1.hidden_n))
    IN  [hidden_n |-> t1.hidden_n, encoder_output |-> t1.encoder_output,
         mask |-> t1.mask, att_weights |-> t1.att_weights,
         soft_att_weights |-> w, att_out |-> AttOut(w, t1.encoder_output)]

\* ---------------------------------------------------------- tensor shapes
\* the shape an operation fails with (a size mismatch raises)
ShapeError ==
    <<0 - 1>>

IsShape(s) ==
    s # ShapeError

\* x.unsqueeze(1)
Unsqueeze1(s) ==
    IF IsShape(s) /\ Len(s) >= 1 THEN <<s[1], 1>> \o SubSeq(s, 2, Len(s))
    ELSE ShapeError

\* x.squeeze(1)
Squeeze1(s) ==
    IF ~IsShape(s) THEN ShapeError
    ELSE IF Len(s) >= 2 /\ s[2] = 1 THEN <<s[1]>> \o SubSeq(s, 3, Len(s))
    ELSE s

\* x.transpose(1, 2) of a 3-d tensor
Transpose12(s) ==
    IF IsShape(s) /\ Len(s) = 3 THEN <<s[1], s[3], s[2]>> ELSE ShapeError

\* torch.bmm(a, b): [b, n, m] x [b, m, p] -> [b, n, p]
Bmm(a, b) ==
    IF /\ IsShape(a) /\ IsShape(b) /\ Len(a) = 3 /\ Len(b) = 3
       /\ a[1] = b[1] /\ a[3] = b[2]
    THEN <<a[1], a[2], b[3]>> ELSE ShapeError

\* a.mul_(b) with b of the same shape (the mask is [batch, seq_len])
MulInplace(a, b) ==
    IF IsShape(a) /\ a = b THEN a ELSE ShapeError

\* torch.cat((a, b), dim=2)
Cat2(a, b) ==
    IF /\ IsShape(a) /\ IsShape(b) /\ Len(a) = 3 /\ Len(b) = 3
       /\ a[1] = b[1] /\ a[2] = b[2]
    THEN <<a[1], a[2], a[3] + b[3]>> ELSE ShapeError

\* nn.Embedding lookup: one row of width dim per id
EmbeddingShape(ids, dim) ==
    IF IsShape(ids) THEN ids \o <<dim>> ELSE ShapeError

\* nn.Linear(in_features, out_features) applied to x
LinearShape(x, in_features, out_features) ==
    IF IsShape(x) /\ Len(x) >= 1 /\ x[Len(x)] = in_features
    THEN SubSeq(x, 1, Len(x) - 1) \o <<out_features>> ELSE ShapeError

\* self._nb_direction = 2 if self._bidirectional else 1, _bidirectional = True
nb_direction ==
    2

\* CharEmbed(...)(chars_input): [batch, T, max_char_len] -> [batch, T, char_hidden_size]
CharEmbedShape(chars, a) ==
    IF IsShape(chars) /\ Len(chars) = 3
    THEN <<chars[1], chars[2], a.char_hidden_size>> ELSE ShapeError

\* input_size of the RNNEncoder built in __init__
LstmInputSize(a) ==
    a.embed_dim + a.char_hidden_size

\* RNNEncoder(embed, mask): rnn_out [batch, T, hidden_size * num_directions]
RnnOutShape(embed, m, a) ==
    IF /\ IsShape(embed) /\ Len(embed) = 3 /\ embed[3] = LstmInputSize(a)
       /\ m = <<embed[1], embed[2]>>
    THEN <<embed[1], embed[2], a.hidden_size * nb_direction>> ELSE ShapeError

\* RNNEncoder(embed, mask): h_n [num_layers, batch, hidden_size * num_directions]
RnnHiddenShape(embed, m, a) ==
    IF IsShape(RnnOutShape(embed, m, a))
    THEN <<a.nb_layer, embed[1], a.hidden_size * nb_direction>> ELSE ShapeError

\* hidden_n[-1]
LastLayer(s) ==
    IF IsShape(s) /\ Len(s) >= 1 THEN Tail(s) ELSE ShapeError

\* in_features without the factor for the two directions
LinearInOneDirection(a) ==
    a.hidden_size

\* in_features of self.linear: args.hidden_size * self._nb_direction
LinearInFeatures(a) ==
    a.hidden_size * nb_direction

\* the shapes of _attention(hidden_n, encoder_output, mask)
AttentionShapes(q, keys, m) ==
    LET scores == MulInplace(Squeeze1(Bmm(Unsqueeze1(q), Transpose12(keys))), m)
    IN  [att_weights |-> scores,
         att_out |-> Squeeze1(Bmm(Unsqueeze1(scores), keys))]

\* the shapes of forward(wds_input, chars_input, mask)
ForwardShapes(wds, chars, m, a) ==
    LET embed == Cat2(EmbeddingShape(wds, a.embed_dim), CharEmbedShape(chars, a))
        rnn_out == RnnOutShape(embed, m, a)
        query == LastLayer(RnnHiddenShape(embed, m, a))
        att == AttentionShapes(query, rnn_out, m)
    IN  [wds |-> wds, chars |-> chars, mask |-> m, embed |-> embed,
         rnn_out |-> rnn_out, query |-> query,
         att_weights |-> att.att_weights, pooled |-> att.att_out,
         out |-> LinearShape(att.att_out, LinearInFeatures(a), a.label_size)]

\* ------------------------------------------------------- PositionEmbed
\* torch.arange(0.0, embed_dim/2): 0, 1, ... below embed_dim/2
ArangeHalf(d) ==
    [j \in 1..((d + 1) \div 2) |-> j - 1]

\* the buffer pe: entry j stands for 1 / 10000^(2j/embed_dim), kept as the
\* exponent's numerator and denominator
PeBuffer(d) ==
    [j \in 1..Len(ArangeHalf(d)) |-> <<2 * ArangeHalf(d)[j], d>>]

\* torch.cat((sin(ger(pos, pe)), cos(ger(pos, pe))), dim=-1) for one example
PosEmbedRow(p, buf) ==
    [j \in 1..(2 * Len(buf)) |->
        IF j <= Len(buf) THEN <<"sin", p, buf[j]>>
        ELSE <<"cos", p, buf[j - Len(buf)]>>]

\* PositionEmbed.forward(pos_seqs): stacked over the batch
PosEmbedForward(pos_seqs, buf) ==
    [i \in 1..Len(pos_seqs) |->
        [l \in 1..Len(pos_seqs[i]) |-> PosEmbedRow(pos_seqs[i][l], buf)]]

\* ------------------------------------------------- BiLSTM.forward, values
\* The configuration of the value model: hidden_size 2 makes the width of
\* the hidden states hidden_size * _nb_direction = 4, whose square root is
\* exact; the vocabulary has two ids and a token has one character.
FwdArgs ==
    [embed_dim |-> 1, char_hidden_size |-> 1, hidden_size |-> 2,
     nb_layer |-> 1, label_size |-> 2, vocab_size |-> 2, char_vocab_size |-> 2,
     max_char_len |-> 1]

\* embedding_weights handed to __init__
PretrainedWeights ==
    <<<<0 - 1>>, <<1>>>>

\* the table left trainable (from_pretrained(..., freeze=False) and no
\* requires_grad = False)
WordEmbeddingTrainable ==
    TRUE

\* self.word_embedding.weight.requires_grad = False
WordEmbeddingRequiresGrad ==
    FALSE

\* requires_grad of every parameter after __init__; the submodules' own
\* parameters keep nn.Module's default
RequiresGradInit ==
    [word_embedding |-> WordEmbeddingRequiresGrad, char_embedding |-> TRUE,
     lstm |-> TRUE, linear |-> TRUE]

\* the parameters after __init__: the table, and one number standing for
\* the weights of each trainable submodule
ParamsInit ==
    [word_embedding |-> PretrainedWeights, char_embedding |-> 1, lstm |-> 1,
     linear |-> 1]

\* self.word_embedding(wds_input): ids count from 0
WordEmbedding(table, wds) ==
    [t \in 1..Len(wds) |-> table[wds[t] + 1]]

\* self.char_embedding(chars_input): one vector of width char_hidden_size
\* per token, a deterministic function of its characters and the weights
CharEmbedding(w, chars) ==
    [t \in 1..Len(chars) |->
        [i \in 1..FwdArgs.char_hidden_size |-> w * SumSeq(chars[t])]]

\* torch.cat((wd_embed, char_embed), dim=2)
CatEmbed(a, b) ==
    [t \in 1..Len(a) |-> a[t] \o b[t]]

\* nn.Dropout in training mode with p = 1/2: kept entries are scaled by 2
DropoutEmbed(x, keep) ==
    [t \in 1..Len(x) |-> [d \in 1..Len(x[t]) |-> 2 * keep[<<t, d>>] * x[t][d]]]

DropoutPooled(x, keep) ==
    [i \in 1..Len(x) |-> <<2 * keep[i] * x[i][1], x[i][2]>>]

\* the keep masks the model draws for a tensor with index set I: nothing
\* dropped, or exactly one entry dropped
KeepMasks(I) ==
    {[i \in I |-> 1]} \cup {[i \in I |-> IF i = z THEN 0 ELSE 1] : z \in I}

KeepAll(I) ==
    [i \in I |-> 1]

\* the saturation of a recurrent unit's state
Clip(x) ==
    IF x > 1 THEN 1 ELSE IF x < 0 - 1 THEN 0 - 1 ELSE x

\* one direction's state of width hidden_size carrying the scalar s
DirState(s) ==
    [i \in 1..FwdArgs.hidden_size |-> IF i % 2 = 1 THEN s ELSE 0 - s]

\* the forward direction of the encoder: a padding position leaves the
\* state as it is, so it does not influence the real positions
RnnForward(x, m, w) ==
    LET f[t \in 0..Len(x)] ==
            IF t = 0 THEN 0
            ELSE IF m[t] = 1 THEN Clip(f[t - 1] + w * SumSeq(x[t]))
            ELSE f[t - 1]
    IN  [t \in 1..Len(x) |-> f[t]]

\* the backward direction
RnnBackward(x, m, w) ==
    LET T == Len(x)
        g[k \in 0..T] ==
            IF k = 0 THEN 0
            ELSE IF m[T + 1 - k] = 1 THEN Clip(g[k - 1] + w * SumSeq(x[T + 1 - k]))
            ELSE g[k - 1]
    IN  [t \in 1..T |-> g[T + 1 - t]]

\* self.lstm(embed, mask): rnn_out, and hidden_n[0][-1], the last layer's
\* final state of both directions side by side
RnnEncoder(x, m, w) ==
    LET fw == RnnForward(x, m, w)
        bw == RnnBackward(x, m, w)
    IN  [rnn_out |-> [t \in 1..Len(x) |-> DirState(fw[t]) \o DirState(bw[t])],
         hidden_n |-> DirState(fw[Len(x)]) \o DirState(bw[1])]

\* the weight and bias of self.linear for the number w standing for them
LinearWeight(w) ==
    [j \in 1..FwdArgs.label_size |->
        [i \in 1..(FwdArgs.hidden_size * nb_direction) |->
            IF i = 2 * j - 1 THEN w ELSE 0]]

\* self.linear(out): one score per label, each a fraction in lowest terms
Linear(x, w) ==
    [j \in 1..FwdArgs.label_size |->
        Reduce(<<SumSeq([i \in 1..Len(x) |-> LinearWeight(w)[j][i] * x[i][1]])
                    + j * x[1][2],
                 x[1][2]>>)]

\* the two dropout layers applied whatever the mode
DropoutAlways(train) ==
    TRUE

\* if self.training: (before embed_drop and before linear_drop)
DropoutActive(train) ==
    train

\* the entries of the fused embedding and of the pooled vector
EmbedIndex(T) ==
    (1..T) \X (1..(FwdArgs.embed_dim + FwdArgs.char_hidden_size))

PooledIndex ==
    1..(FwdArgs.hidden_size * nb_direction)

\* the keep masks a dropout layer over index set I can draw in mode train
DrawnMasks(I, train) ==
    IF DropoutActive(train) THEN KeepMasks(I) ELSE {KeepAll(I)}

\* the fused embedding the encoder is given
FusedEmbed(p, wds, chars, train, keep1) ==
    LET embed == CatEmbed(WordEmbedding(p.word_embedding, wds),
                          CharEmbedding(p.char_embedding, chars))
    IN  IF DropoutActive(train) THEN DropoutEmbed(embed, keep1) ELSE embed

\* forward(wds_input, chars_input, mask) in mode train, with the keep masks
\* keep1 and keep2 the two dropout layers draw: every tensor that outlives
\* the call, as it is when the call returns, and the logits
ForwardRun(p, wds, chars, m, train, keep1, keep2) ==
    LET enc == RnnEncoder(FusedEmbed(p, wds, chars, train, keep1), m, p.lstm)
        att == AttentionRun(enc.hidden_n, enc.rnn_out, m)
        pooled == IF DropoutActive(train) THEN DropoutPooled(att.att_out, keep2)
                  ELSE att.att_out
    IN  [wds_input |-> wds, chars_input |-> chars, mask |-> att.mask,
         rnn_out |-> att.encoder_output, hidden_n |-> att.hidden_n,
         soft_att_weights |-> att.soft_att_weights, att_out |-> att.att_out,
         params |-> p, out |-> Linear(pooled, p.linear),
         returned |-> enc]

\* a training step: the optimizer adds the update d to every entry of every
\* parameter that requires a gradient, and to no other
StepTable(table, d) ==
    [r \in 1..Len(table) |-> [c \in 1..Len(table[r]) |-> table[r][c] + d]]

StepParams(p, rg, d) ==
    [word_embedding |-> IF rg.word_embedding THEN StepTable(p.word_embedding, d)
                        ELSE p.word_embedding,
     char_embedding |-> IF rg.char_embedding THEN p.char_embedding + d
                        ELSE p.char_embedding,
     lstm |-> IF rg.lstm THEN p.lstm + d ELSE p.lstm,
     linear |-> IF rg.linear THEN p.linear + d ELSE p.linear]

\* ---------------------------------------------------------------- state
VARIABLES
    hidden_n, encoder_output, mask, soft_att_weights, att_out, pc,
    args, shapes,
    pos_embed_dim, pe, pos_out,
    training, params, requires_grad, steps,
    wds_input, chars_input, logits, ref, history, snapshot

attVars ==
    <<hidden_n, encoder_output, mask, soft_att_weights, att_out>>

shapeVars ==
    <<args, shapes>>

posVars ==
    <<pos_embed_dim, pe, pos_out>>

modelVars ==
    <<training, params, requires_grad, steps>>

callVars ==
    <<wds_input, chars_input, logits, ref, history, snapshot>>

fwdVars ==
    <<modelVars, callVars>>

vars ==
    <<attVars, pc, shapeVars, posVars, fwdVars>>

\* a component that the specification at hand does not exercise
NoAtt ==
    /\ hidden_n = <<>> /\ encoder_output = <<>> /\ mask = NoMask
    /\ soft_att_weights = <<>> /\ att_out = <<>>

NoShapes ==
    args = <<>> /\ shapes = <<>>

NoPos ==
    pos_embed_dim = 0 /\ pe = <<>> /\ pos_out = <<>>

NoFwd ==
    /\ training = FALSE /\ params = <<>> /\ requires_grad = <<>> /\ steps = 0
    /\ wds_input = <<>> /\ chars_input = <<>> /\ logits = <<>> /\ ref = <<>>
    /\ history = <<>> /\ snapshot = <<>>

\* ---------------------------------------------- _attention as a function
\* the widths hidden_n.size(1) the attention is exercised with
Widths ==
    {1, 4}

Masks(T) ==
    [1..T -> {0, 1}] \cup {NoMask}

InitAtt ==
    /\ \E h \in Widths, T \in 1..MaxT :
          /\ hidden_n \in Vecs(h)
          /\ encoder_output \in [1..T -> Vecs(h)]
          /\ mask \in Masks(T)
    /\ soft_att_weights = <<>>
    /\ att_out = <<>>
    /\ pc = "call"
    /\ NoShapes /\ NoPos /\ NoFwd

Attention ==
    /\ pc = "call"
    /\ LET r == AttentionRun(hidden_n, encoder_output, mask)
       IN  /\ hidden_n' = r.hidden_n
           /\ encoder_output' = r.encoder_output
           /\ mask' = r.mask
           /\ soft_att_weights' = r.soft_att_weights
           /\ att_out' = r.att_out
    /\ pc' = "done"
    /\ UNCHANGED <<shapeVars, posVars, fwdVars>>

NextAtt ==
    Attention

SpecAtt ==
    InitAtt /\ [][NextAtt]_vars

\* -------------------------------------------- the shapes through forward
Dims ==
    1..MaxDim

\* the configuration BiLSTM.__init__ reads: embedding_weights.shape[1] and args
Configs ==
    [embed_dim : Dims, char_hidden_size : Dims, hidden_size : Dims,
     nb_layer : Dims, label_size : 2..(MaxDim + 1)]

InitShapes ==
    /\ args \in Configs
    /\ shapes = <<>>
    /\ pc = "built"
    /\ NoAtt /\ NoPos /\ NoFwd

ForwardShape ==
    /\ pc = "built"
    /\ \E b \in 1..MaxBatch, T \in 1..MaxT, L \in Dims :
          shapes' = ForwardShapes(<<b, T>>, <<b, T, L>>, <<b, T>>, args)
    /\ pc' = "done"
    /\ UNCHANGED <<args, attVars, posVars, fwdVars>>

NextShapes ==
    ForwardShape

SpecShapes ==
    InitShapes /\ [][NextShapes]_vars

\* ------------------------------------------------ PositionEmbed in use
\* PositionEmbed(embed_dim): no check of embed_dim, the buffer is registered
PositionEmbedInit ==
    /\ pc = "new"
    /\ \E d \in 1..(MaxDim + 2) :
          /\ pos_embed_dim' = d
          /\ pe' = PeBuffer(d)
    /\ pc' = "built"
    /\ UNCHANGED <<pos_out, attVars, shapeVars, fwdVars>>

PositionEmbedForward ==
    /\ pc = "built"
    /\ \E b \in 1..MaxBatch, L \in 1..MaxT :
          \E pos_seqs \in [1..b -> [1..L -> 0..(MaxT - 1)]] :
             pos_out' = PosEmbedForward(pos_seqs, pe)
    /\ pc' = "done"
    /\ UNCHANGED <<pos_embed_dim, pe, attVars, shapeVars, fwdVars>>

InitPos ==
    /\ pc = "new"
    /\ NoPos /\ NoAtt /\ NoShapes /\ NoFwd

NextPos ==
    PositionEmbedInit \/ PositionEmbedForward

SpecPos ==
    InitPos /\ [][NextPos]_vars

\* ------------------------------------------------- the classifier in use
\* The harness loads a batch, toggles the mode, calls forward any number of
\* times, may take a training step after a training-mode call, and
\* releases the batch.  ref holds the logits of the first eval-mode call on
\* the loaded batch since the parameters last changed; history.last is the
\* mode of the latest call and history.between tells whether a
\* training-mode call came after the call ref was taken from.  snapshot
\* holds the caller's tensors and the parameters as the latest call found
\* them, and the hidden states and final state as the encoder returned them
\* to that call.
NoCalls ==
    [last |-> "none", between |-> FALSE]

TokenIds ==
    0..(FwdArgs.vocab_size - 1)

CharIds ==
    0..(FwdArgs.char_vocab_size - 1)

InitFwd ==
    /\ training = TRUE
    /\ params = ParamsInit
    /\ requires_grad = RequiresGradInit
    /\ steps = 0
    /\ wds_input = <<>> /\ chars_input = <<>> /\ mask = NoMask
    /\ hidden_n = <<>> /\ encoder_output = <<>>
    /\ soft_att_weights = <<>> /\ att_out = <<>>
    /\ logits = <<>> /\ ref = <<>> /\ history = NoCalls /\ snapshot = <<>>
    /\ pc = "idle"
    /\ NoShapes /\ NoPos

\* the caller builds the tensors of a batch
Load ==
    /\ pc = "idle"
    /\ \E T \in 1..MaxT :
          /\ wds_input' \in [1..T -> TokenIds]
          /\ chars_input' \in [1..T -> [1..FwdArgs.max_char_len -> CharIds]]
          /\ mask' \in [1..T -> {0, 1}]
    /\ pc' = "loaded"
    /\ UNCHANGED <<hidden_n, encoder_output, soft_att_weights, att_out,
                   logits, ref, history, snapshot, modelVars, shapeVars,
                   posVars>>

\* model.train() / model.eval()
SetTraining ==
    /\ pc \in {"idle", "loaded"}
    /\ training' = ~training
    /\ UNCHANGED <<params, requires_grad, steps, callVars, attVars, pc,
                   shapeVars, posVars>>

\* out = model(wds_input, chars_input, mask)
Forward ==
    /\ pc = "loaded"
    /\ \E keep1 \in DrawnMasks(EmbedIndex(Len(wds_input)), training),
          keep2 \in DrawnMasks(PooledIndex, training) :
          \E r \in {ForwardRun(params, wds_input, chars_input, mask, training,
                                keep1, keep2)} :
              /\ wds_input' = r.wds_input
              /\ chars_input' = r.chars_input
              /\ mask' = r.mask
              /\ encoder_output' = r.rnn_out
              /\ hidden_n' = r.hidden_n
              /\ soft_att_weights' = r.soft_att_weights
              /\ att_out' = r.att_out
              /\ params' = r.params
              /\ logits' = r.out
              /\ ref' = IF ~training /\ ref = <<>> THEN r.out ELSE ref
              /\ snapshot' = [wds_input |-> wds_input,
                              chars_input |-> chars_input, mask |-> mask,
                              params |-> params, returned |-> r.returned]
    /\ history' = [last |-> IF training THEN "train" ELSE "eval",
                   between |-> history.between \/ (training /\ ref # <<>>)]
    /\ UNCHANGED <<training, requires_grad, steps, pc, shapeVars, posVars>>

\* loss.backward(); optimizer.step() after a training-mode call
TrainStep ==
    /\ pc = "loaded" /\ training /\ history.last = "train"
    /\ steps < MaxSteps
    /\ params' = StepParams(params, requires_grad, 1)
    /\ steps' = steps + 1
    /\ ref' = <<>>
    /\ history' = NoCalls
    /\ snapshot' = <<>>
    /\ UNCHANGED <<training, requires_grad, wds_input, chars_input, logits,
                   attVars, pc, shapeVars, posVars>>

\* the caller drops the batch and what the call returned
Release ==
    /\ pc = "loaded"
    /\ wds_input' = <<>> /\ chars_input' = <<>> /\ mask' = NoMask
    /\ hidden_n' = <<>> /\ encoder_output' = <<>>
    /\ soft_att_weights' = <<>> /\ att_out' = <<>>
    /\ logits' = <<>> /\ ref' = <<>> /\ history' = NoCalls
    /\ snapshot' = <<>>
    /\ pc' = "idle"
    /\ UNCHANGED <<modelVars, shapeVars, posVars>>

NextFwd ==
    Load \/ SetTraining \/ Forward \/ TrainStep \/ Release

SpecFwd ==
    InitFwd /\ [][NextFwd]_vars

\* ------------------------------------------------ properties of _attention
HasMask ==
    mask # NoMask

Valid(t) ==
    mask[t] = 1

SomeValid ==
    \E t \in 1..Len(mask) : Valid(t)

AllMasked ==
    HasMask /\ ~SomeValid

SeqLen ==
    Len(encoder_output)

\* the weights at the positions of set P of one row
WeightsAt(w, P) ==
    [t \in 1..Len(w) |-> IF t \in P THEN w[t] ELSE <<0, 1>>]

ValidSet ==
    {t \in 1..SeqLen : Valid(t)}

IsOne(f) ==
    f[1] = f[2]

\* C1: with a mask that has a valid position, the weights at the valid
\* (mask = 1) positions alone sum to 1: padding carries no weight.
C1_ValidWeightsSumToOne ==
    (pc = "done" /\ HasMask /\ SomeValid)
        => IsOne(FracSum(WeightsAt(soft_att_weights, ValidSet)))

\* C2: the weight of every masked position is at most the weight the same
\* position gets from the same query and keys with that position unmasked.
C2_MaskedWeightNotLarger ==
    (pc = "done" /\ HasMask)
        => \A t \in 1..SeqLen :
              mask[t] = 0 =>
                 FracLe(soft_att_weights[t],
                        AttentionRun(hidden_n, encoder_output,
                            [mask EXCEPT ![t] = 1]).soft_att_weights[t])

\* C3: the pooled vector does not depend on the encoder output at a masked
\* position: replacing the key at a masked position leaves att_out as is.
C3_PooledIgnoresMaskedKeys ==
    (pc = "done" /\ HasMask /\ SomeValid)
        => \A t \in 1..SeqLen : \A v \in Vecs(Len(hidden_n)) :
              mask[t] = 0 =>
                 LET k2 == [encoder_output EXCEPT ![t] = v]
                     o2 == AttentionRun(hidden_n, k2, mask).att_out
                 IN  \A i \in 1..Len(att_out) : FracEq(att_out[i], o2[i])

MinOver(f, T) ==
    CHOOSE x \in {f[t] : t \in 1..T} : \A y \in {f[t] : t \in 1..T} : x <= y

MaxOver(f, T) ==
    CHOOSE x \in {f[t] : t \in 1..T} : \A y \in {f[t] : t \in 1..T} : x >= y

\* C4: without a mask, or with a mask that has a valid position, every
\* weight is non-negative, the weights of all T positions sum to 1, and each
\* component of the pooled vector lies between the least and the greatest
\* value of that component over the hidden states (a convex combination).
C4_WeightsAreDistribution ==
    (pc = "done" /\ (HasMask => SomeValid))
        => /\ \A t \in 1..SeqLen :
                 soft_att_weights[t][1] >= 0 /\ soft_att_weights[t][2] > 0
           /\ IsOne(FracSum(soft_att_weights))
           /\ \A i \in 1..Len(att_out) :
                 LET col == [t \in 1..SeqLen |-> encoder_output[t][i]]
                 IN  /\ FracLe(<<MinOver(col, SeqLen), 1>>, att_out[i])
                     /\ FracLe(att_out[i], <<MaxOver(col, SeqLen), 1>>)

C4_Witness ==
    /\ pc = "done" /\ HasMask /\ SomeValid /\ SeqLen >= 2
    /\ \E t \in 1..SeqLen : mask[t] = 0
    /\ \E t \in 1..SeqLen : ~IsOne(soft_att_weights[t])
    /\ soft_att_weights[1] # soft_att_weights[2]

C5_ForwardShape ==
    (pc = "done" /\ shapes # <<>>)
        => LET b == shapes.wds[1]
               H == args.hidden_size * 2
           IN  /\ shapes.out = <<b, args.label_size>>
               /\ shapes.query = <<b, H>>
               /\ shapes.rnn_out = <<b, shapes.wds[2], H>>
               /\ LinearInFeatures(args) = H
               /\ shapes.pooled = <<b, H>>

C5_Witness ==
    /\ pc = "done" /\ shapes # <<>>
    /\ shapes.wds = <<2, 2>> /\ args.hidden_size = 2 /\ args.label_size = 3
    /\ shapes.out = <<2, 3>> /\ shapes.pooled = <<2, 4>>

\* ---------------------------------------------- properties of PositionEmbed
\* C8: a PositionEmbed with an odd embed_dim is rejected when constructed:
\* none is ever built, and none ever produces an output.
C8_OddEmbedDimRejected ==
    (pc \in {"built", "done"} /\ pos_embed_dim # 0 /\ pos_out # <<>>)
        => pos_embed_dim % 2 = 0

\* --------------------------------------------- properties of the classifier
\* C6: in eval mode with the parameters fixed, a forward call on the same
\* inputs returns the logits the first such call returned, whatever calls
\* and mode changes came between.
C6_EvalDeterministic ==
    (pc = "loaded" /\ history # <<>> /\ history.last = "eval" /\ ref # <<>>)
        => logits = ref

C6_Witness ==
    /\ pc = "loaded" /\ history # <<>> /\ history.last = "eval"
    /\ history.between /\ ref # <<>> /\ logits = ref
    /\ Len(wds_input) >= 2 /\ \E t \in 1..Len(mask) : mask[t] = 0

OtherParamsChanged ==
    /\ params.char_embedding # ParamsInit.char_embedding
    /\ params.lstm # ParamsInit.lstm
    /\ params.linear # ParamsInit.linear

\* C7: the word embedding table stays what __init__ loaded through every
\* forward call and training step, and is marked as requiring no gradient,
\* while a training step changes the character encoder, the recurrent
\* encoder and the linear head.
C7_WordEmbeddingFrozen ==
    (params # <<>>)
        => /\ params.word_embedding = PretrainedWeights
           /\ ~requires_grad.word_embedding
           /\ (steps > 0 => OtherParamsChanged)

C7_Witness ==
    /\ params # <<>> /\ steps > 0 /\ OtherParamsChanged
    /\ params.word_embedding = PretrainedWeights
    /\ history # <<>> /\ history.last = "eval"

\* C10: when a forward call has returned, the caller's token ids, char ids
\* and mask and all parameters are as the call found them, and the hidden
\* states and final state are as the encoder returned them: the in-place
\* multiplication has written to the score tensor only.
C10_ForwardFrame ==
    (pc = "loaded" /\ snapshot # <<>>)
        => /\ wds_input = snapshot.wds_input
           /\ chars_input = snapshot.chars_input
           /\ mask = snapshot.mask
           /\ params = snapshot.params
           /\ encoder_output = snapshot.returned.rnn_out
           /\ hidden_n = snapshot.returned.hidden_n

C10_Witness ==
    /\ pc = "loaded" /\ snapshot # <<>>
    /\ \E t \in 1..Len(mask) :
          mask[t] = 0 /\ Dot(hidden_n, encoder_output[t]) # 0
    /\ \E t \in 1..Len(mask) : mask[t] = 1
=============================================================================
